---- MODULE Spec2Model ----
(***************************************************************************)
(* Model of pyrust-task-id (src/src/lib.rs): the commit-message hook that  *)
(* extracts a task id from the branch name and injects it into the commit  *)
(* message.  Strings are sequences of one-character strings.               *)
(***************************************************************************)
EXTENDS Integers, Sequences, FiniteSets, TLC

VARIABLES
    pc,                       \* position inside provide_task_id_into_commit
    run,                      \* 1 = first invocation of the hook, 2 = second
    branch_name,              \* argument branch_name
    task_regex_raw,           \* argument task_regex_raw (a pattern, see Regex_new)
    commit_message_template,  \* argument commit_message_template (raw)
    file,                     \* contents of commit_message_filename, or NoFile
    template,                 \* local `template`
    commit_subject,           \* local `commit_subject`
    commit_body,              \* local `commit_body`
    task_id,                  \* local `task_id`
    updated_commit_message,   \* local `updated_commit_message`
    exit_status,              \* process status: 0, or 1 after exit(1)
    writes,                   \* number of File::create + write_all so far
    file_before,              \* file contents when the current invocation began
    outcome                   \* how the current invocation ended

vars == <<pc, run, branch_name, task_regex_raw, commit_message_template, file,
          template, commit_subject, commit_body, task_id, updated_commit_message,
          exit_status, writes,
          file_before, outcome>>

-----------------------------------------------------------------------------
(* Characters *)

NL == "LF"          \* the newline character
BS == "\\"          \* the backslash character
SP == " "
HASH == "#"
LB == "{"
RB == "}"

\* read_to_string of a path that does not exist (no character is "ENOENT",
\* so NoFile differs from every file content).
NoFile == <<"ENOENT">>

\* Result and Option values: Ok(v) / Some(v), and Err(e) / None.
Ok(v) == [ok |-> TRUE, val |-> v]
Err(e) == [ok |-> FALSE, val |-> e]

\* F applied to the value of x (x is evaluated once, before F uses it).
Apply(F(_), x) == CHOOSE y \in {F(v) : v \in {x}} : TRUE

\* Every sequence over alphabet A of length at most n.
SeqsUpTo(A, n) == UNION {[1..k -> A] : k \in 0..n}

-----------------------------------------------------------------------------
(* str methods used by the program *)

\* s[i..] starts with pat (1-based i).
StartsWithAt(s, pat, i) ==
    /\ i + Len(pat) - 1 <= Len(s)
    /\ \A k \in 1..Len(pat) : s[i + k - 1] = pat[k]

RECURSIVE FindFrom(_, _, _)
FindFrom(s, pat, i) ==
    IF i + Len(pat) - 1 > Len(s) THEN 0
    ELSE IF StartsWithAt(s, pat, i) THEN i
    ELSE FindFrom(s, pat, i + 1)

\* str::find: 1-based index of the first occurrence of pat in s, 0 for None.
Find(s, pat) == FindFrom(s, pat, 1)

\* str::contains
Contains(s, pat) == Find(s, pat) # 0

RECURSIVE ReplaceFrom(_, _, _, _)
ReplaceFrom(s, from, to, i) ==
    IF i > Len(s) THEN <<>>
    ELSE IF StartsWithAt(s, from, i)
         THEN to \o ReplaceFrom(s, from, to, i + Len(from))
         ELSE <<s[i]>> \o ReplaceFrom(s, from, to, i + 1)

\* str::replace with a non-empty pattern: every non-overlapping match, left to
\* right, in one pass.
Replace(s, from, to) == ReplaceFrom(s, from, to, 1)

IsWhitespace(c) == c \in {NL, SP}

RECURSIVE TrimStart(_)
TrimStart(s) ==
    IF s # <<>> /\ IsWhitespace(Head(s)) THEN TrimStart(Tail(s)) ELSE s

RECURSIVE TrimEnd(_)
TrimEnd(s) ==
    IF s # <<>> /\ IsWhitespace(s[Len(s)])
    THEN TrimEnd(SubSeq(s, 1, Len(s) - 1)) ELSE s

\* str::trim
Trim(s) == Apply(TrimEnd, TrimStart(s))

\* str::split_once: None, or the text before and after the first occurrence.
SplitOnce(s, pat) ==
    LET i == Find(s, pat) IN
    IF i = 0 THEN Err("None")
    ELSE Ok(<<SubSeq(s, 1, i - 1), SubSeq(s, i + Len(pat), Len(s))>>)

-----------------------------------------------------------------------------
(* get_subject_and_body *)

\* Lines 52-54: the message up to the first newline that a `#` follows.
StripComments(commit_message) ==
    Apply(LAMBDA idx :
              SubSeq(commit_message, 1,
                     IF idx = 0 THEN Len(commit_message) ELSE idx - 1),
          Find(commit_message, <<NL, HASH>>))

\* As SplitSubjectBody, but at the last blank line (rsplit_once).
SplitSubjectBody_last(msg) ==
    LET seps == {i \in 1..Len(msg) : StartsWithAt(msg, <<NL, NL>>, i)}
        last == CHOOSE i \in seps : \A j \in seps : j <= i
    IN IF seps = {} THEN <<msg, <<>>>>
       ELSE <<SubSeq(msg, 1, last - 1), SubSeq(msg, last + 2, Len(msg))>>

\* Lines 56-60.
SplitSubjectBody(msg) ==
    Apply(LAMBDA parts :
              IF parts.ok THEN <<parts.val[1], parts.val[2]>> ELSE <<msg, <<>>>>,
          SplitOnce(msg, <<NL, NL>>))

get_subject_and_body(commit_message) ==
    Apply(SplitSubjectBody, StripComments(commit_message))

-----------------------------------------------------------------------------
\* regex::Regex.  A pattern text is represented by its parsed form
\*     prefix GROUP .*
\* a literal prefix, one capture group over a character class, and `.*`:
\*   valid : Regex::new accepts the text
\*   named : the group is written (?P<task_template>...), else (...)
\*   quant : "plus" for ([cls]+), "star" for ([cls]*), "opt" for ([cls]+)?
\*   cls   : the characters of the class

Regex_new(raw) == IF raw.valid THEN Ok(raw) ELSE Err("syntax")

\* Length of the longest run of class characters of s starting at j (greedy).
RECURSIVE RunLen(_, _, _)
RunLen(s, j, cls) ==
    IF j <= Len(s) /\ s[j] \in cls THEN 1 + RunLen(s, j + 1, cls) ELSE 0

\* The pattern matches s starting at position i.
MatchAt(s, re, i) ==
    /\ StartsWithAt(s, re.prefix, i)
    /\ re.quant = "plus" => RunLen(s, i + Len(re.prefix), re.cls) >= 1

RECURSIVE CapturesFrom(_, _, _)
CapturesFrom(s, re, i) ==
    IF i > Len(s) + 1 THEN Err("None")
    ELSE IF MatchAt(s, re, i)
         THEN LET j == i + Len(re.prefix)
                  n == RunLen(s, j, re.cls)
              IN Ok([start |-> i,
                     \* group 1 takes part in the match unless it is the
                     \* optional group and no class character follows
                     participates |-> ~(re.quant = "opt" /\ n = 0),
                     from |-> j, to |-> j + n - 1,
                     name |-> IF re.named THEN "task_template" ELSE ""])
         ELSE CapturesFrom(s, re, i + 1)

\* Regex::captures: the leftmost match, or None.
Captures(s, re) == CapturesFrom(s, re, 1)

\* Captures::name: the text of the named group if it exists and took part.
CapturesName(s, caps, name) ==
    IF caps.name = name /\ caps.participates
    THEN Ok(SubSeq(s, caps.from, caps.to)) ELSE Err("None")

-----------------------------------------------------------------------------
(* get_task_id *)

NotInBranch == "NotInBranch"
WrongCapturingGroup == "WrongCapturingGroup"

\* As get_task_id, but looking for the named group before looking for a match.
get_task_id_namefirst(branch, regex) ==
    IF ~regex.named THEN Err(WrongCapturingGroup)
    ELSE LET regex_match == Captures(branch, regex) IN
         IF ~regex_match.ok THEN Err(NotInBranch)
         ELSE LET captured_group ==
                      CapturesName(branch, regex_match.val, "task_template")
              IN IF ~captured_group.ok THEN Err(WrongCapturingGroup)
                 ELSE Ok(captured_group.val)

\* Lines 67-81.
get_task_id(branch, regex) ==
    LET regex_match == Captures(branch, regex) IN
    IF ~regex_match.ok THEN Err(NotInBranch)
    ELSE LET captured_group ==
                 CapturesName(branch, regex_match.val, "task_template")
         IN IF ~captured_group.ok THEN Err(WrongCapturingGroup)
            ELSE Ok(captured_group.val)

-----------------------------------------------------------------------------
(* strfmt::strfmt and format_commit_message *)

SUBJECT == <<"s", "u", "b", "j", "e", "c", "t">>
BODY == <<"b", "o", "d", "y">>
TASK_ID == <<"t", "a", "s", "k", "_", "i", "d">>

\* The HashMap built by format_commit_message.
Placeholders(commit_subject_, commit_body_, task_id_) ==
    [k \in {SUBJECT, BODY, TASK_ID} |->
        IF k = SUBJECT THEN commit_subject_
        ELSE IF k = BODY THEN commit_body_ ELSE task_id_]

\* strfmt's scan of the format string, one character per step:
\*   reading  - inside "{...", opened at index `opening`
\*   closing  - a lone "}" was just read
RECURSIVE strfmt_scan(_, _, _, _, _, _, _)
strfmt_scan(t, ph, i, out, reading, opening, closing) ==
    IF i > Len(t)
    THEN IF closing \/ reading THEN Err("Invalid") ELSE Ok(out)
    ELSE LET c == t[i] IN
      IF c = LB THEN
          IF reading /\ opening = i - 1
          THEN strfmt_scan(t, ph, i + 1, out \o <<c>>, FALSE, opening, closing)
          ELSE IF ~reading
          THEN strfmt_scan(t, ph, i + 1, out, TRUE, i, closing)
          ELSE Err("Invalid")
      ELSE IF c = RB THEN
          IF ~reading /\ ~closing
          THEN strfmt_scan(t, ph, i + 1, out, reading, opening, TRUE)
          ELSE IF closing
          THEN strfmt_scan(t, ph, i + 1, out \o <<c>>, reading, opening, FALSE)
          ELSE LET key == SubSeq(t, opening + 1, i - 1) IN
               IF key \in DOMAIN ph
               THEN strfmt_scan(t, ph, i + 1, out \o ph[key], FALSE, opening,
                                closing)
               ELSE Err("KeyError")
      ELSE IF closing THEN Err("Invalid")
      ELSE IF ~reading
      THEN strfmt_scan(t, ph, i + 1, out \o <<c>>, reading, opening, closing)
      ELSE strfmt_scan(t, ph, i + 1, out, reading, opening, closing)

strfmt(fmtstr, ph) == strfmt_scan(fmtstr, ph, 1, <<>>, FALSE, 0, FALSE)

NL2 == <<NL, NL>>
NL4 == <<NL, NL, NL, NL>>

RECURSIVE CollapseAll(_)
CollapseAll(s) ==
    IF Contains(s, NL4) THEN CollapseAll(Replace(s, NL4, NL2)) ELSE s

\* As format_commit_message, but collapsing blank lines until none is left.
format_commit_message_fixpoint(message_template, commit_subject_, commit_body_, task_id_) ==
    Apply(LAMBDA r : IF r.ok THEN Ok(CollapseAll(r.val)) ELSE Err("exit(1)"),
          strfmt(message_template,
                 Placeholders(commit_subject_, commit_body_, task_id_)))

\* Ok(message), or Err when the function ends the process with exit(1).
format_commit_message(message_template, commit_subject_, commit_body_, task_id_) ==
    Apply(LAMBDA r :
              IF r.ok THEN Ok(Replace(r.val, NL4, NL2)) ELSE Err("exit(1)"),
          strfmt(message_template,
                 Placeholders(commit_subject_, commit_body_, task_id_)))

-----------------------------------------------------------------------------
(* Inputs of provide_task_id_into_commit *)

MaxFileLen == 3

PH(name) == <<LB>> \o name \o <<RB>>
ESC_NL == <<BS, "n">>          \* the two characters backslash, n

Pattern(valid_, prefix_, named_, quant_, cls_) ==
    [valid |-> valid_, prefix |-> prefix_, named |-> named_, quant |-> quant_,
     cls |-> cls_]

Patterns ==
    { Pattern(TRUE, <<"f">>, TRUE, "plus", {"t"}),       \* f(?P<task_template>t+).*
      Pattern(TRUE, <<"f">>, FALSE, "plus", {"t"}),      \* f(t+).*
      Pattern(TRUE, <<"f">>, TRUE, "star", {"t"}),       \* f(?P<task_template>t*).*
      Pattern(TRUE, <<"f">>, TRUE, "opt", {"t"}),        \* f(?P<task_template>t+)?.*
      Pattern(TRUE, <<"f">>, TRUE, "plus", {"t", HASH, BS, "n"}),
      Pattern(FALSE, <<"f">>, TRUE, "plus", {"t"}) }     \* f(?P<task_template>t+
                                                         \* is rejected by Regex::new

Branches ==
    { <<"m">>, <<"f">>, <<"f", "t">>, <<"m", "f", "t", "t">>,
      <<"f", HASH, "t">>, <<"f", BS, "n">> }

Templates ==
    { PH(SUBJECT) \o ESC_NL \o ESC_NL \o PH(BODY) \o ESC_NL \o ESC_NL \o PH(TASK_ID),
      PH(TASK_ID) \o <<SP>> \o PH(SUBJECT) \o <<NL, NL>> \o PH(BODY),
      PH(SUBJECT) \o ESC_NL \o ESC_NL \o PH(BODY),
      PH(SUBJECT) \o ESC_NL \o <<HASH>> \o PH(TASK_ID),
      PH(SUBJECT) \o <<LB>> \o TASK_ID,
      PH(SUBJECT) \o PH(<<"t">>),
      <<LB>> \o PH(TASK_ID) \o <<RB>> \o PH(SUBJECT),
      <<"x">> \o ESC_NL \o PH(SUBJECT) \o PH(TASK_ID) }

FileChars == {NL, HASH, "t"}

SampleFiles ==
    { <<"a", NL, NL, "b">>,
      <<"a", NL, NL, "b", NL, NL, HASH, "c", NL>>,
      <<"a", BS, "n", BS, "n", "b">>,
      <<"a", NL, NL, NL, NL, "b">>,
      <<"a", SP, "t", NL>> }

Files == {NoFile} \cup SeqsUpTo(FileChars, MaxFileLen) \cup SampleFiles

-----------------------------------------------------------------------------
(* provide_task_id_into_commit, one action per step *)

Init ==
    /\ pc = "start"
    /\ run = 1
    /\ branch_name \in Branches
    /\ task_regex_raw \in Patterns
    /\ commit_message_template \in Templates
    /\ file \in Files
    /\ file_before = file
    /\ template = <<>>
    /\ commit_subject = <<>>
    /\ commit_body = <<>>
    /\ task_id = <<>>
    /\ updated_commit_message = <<>>
    /\ exit_status = 0
    /\ writes = 0
    /\ outcome = "running"

\* Line 134: commit_message_template.replace("\\n", "\n").
Unescape_identity(raw) == raw

Unescape(raw) == Replace(raw, ESC_NL, <<NL>>)

\* Line 145: read_to_string(..).unwrap_or_default().
ReadFile_leak(f) == f

ReadFile(f) == IF f = NoFile THEN <<>> ELSE f

Finish(how, status) ==
    /\ pc' = "done"
    /\ outcome' = how
    /\ exit_status' = status

\* Lines 134-142: unescape the template, compile the pattern or exit(1).
Compile ==
    /\ pc = "start"
    /\ template' = Unescape(commit_message_template)
    /\ IF Regex_new(task_regex_raw).ok
       THEN pc' = "read" /\ UNCHANGED <<outcome, exit_status>>
       ELSE Finish("InvalidPattern", 1)
    /\ UNCHANGED <<run, branch_name, task_regex_raw, commit_message_template,
                   file, commit_subject, commit_body, task_id,
                   updated_commit_message, writes, file_before>>

\* Lines 144-148: read the file (empty when missing), trim, split.
ReadMessage ==
    /\ pc = "read"
    /\ \E sb \in {Apply(get_subject_and_body, Trim(ReadFile(file)))} :
          /\ commit_subject' = sb[1]
          /\ commit_body' = sb[2]
    /\ pc' = "match"
    /\ UNCHANGED <<run, branch_name, task_regex_raw, commit_message_template,
                   file, template, task_id, updated_commit_message,
                   exit_status, writes, file_before, outcome>>

\* As MatchBranch, but the missing named group ends the process with exit(1).
MatchBranch_fatal ==
    /\ pc = "match"
    /\ \E r \in {get_task_id(branch_name, Regex_new(task_regex_raw).val)} :
       IF r.ok
       THEN /\ task_id' = r.val
            /\ pc' = "check"
            /\ UNCHANGED <<outcome, exit_status>>
       ELSE /\ Finish(r.val, IF r.val = WrongCapturingGroup THEN 1 ELSE 0)
            /\ UNCHANGED task_id
    /\ UNCHANGED <<run, branch_name, task_regex_raw, commit_message_template,
                   file, template, commit_subject, commit_body,
                   updated_commit_message, writes, file_before>>

\* Lines 150-162: get_task_id; both errors return without touching the file.
MatchBranch ==
    /\ pc = "match"
    /\ \E r \in {get_task_id(branch_name, Regex_new(task_regex_raw).val)} :
       IF r.ok
       THEN /\ task_id' = r.val
            /\ pc' = "check"
            /\ UNCHANGED <<outcome, exit_status>>
       ELSE /\ Finish(r.val, 0)
            /\ UNCHANGED task_id
    /\ UNCHANGED <<run, branch_name, task_regex_raw, commit_message_template,
                   file, template, commit_subject, commit_body,
                   updated_commit_message, writes, file_before>>

AlreadyPresent_nonempty(commit_subject_, commit_body_, task_id_) ==
    /\ task_id_ # <<>>
    /\ Contains(commit_subject_, task_id_) \/ Contains(commit_body_, task_id_)

AlreadyPresent(commit_subject_, commit_body_, task_id_) ==
    Contains(commit_subject_, task_id_) \/ Contains(commit_body_, task_id_)

\* As PresenceCheck, but the pass-through writes the trimmed, comment-free
\* message back.
PresenceCheck_writes ==
    /\ pc = "check"
    /\ IF AlreadyPresent(commit_subject, commit_body, task_id)
       THEN /\ Finish("Present", 0)
            /\ file' = IF commit_body = <<>> THEN commit_subject
                       ELSE commit_subject \o NL2 \o commit_body
       ELSE pc' = "format" /\ UNCHANGED <<outcome, exit_status, file>>
    /\ UNCHANGED <<run, branch_name, task_regex_raw, commit_message_template,
                   template, commit_subject, commit_body, task_id,
                   updated_commit_message, writes, file_before>>

\* Lines 164-166: return when the task id is already in the message.
PresenceCheck ==
    /\ pc = "check"
    /\ IF AlreadyPresent(commit_subject, commit_body, task_id)
       THEN Finish("Present", 0)
       ELSE pc' = "format" /\ UNCHANGED <<outcome, exit_status>>
    /\ UNCHANGED <<run, branch_name, task_regex_raw, commit_message_template,
                   file, template, commit_subject, commit_body, task_id,
                   updated_commit_message, writes, file_before>>

\* Lines 168-173: render, or exit(1) inside format_commit_message.
Format ==
    /\ pc = "format"
    /\ \E r \in {format_commit_message(template, commit_subject, commit_body,
                                       task_id)} :
       IF r.ok
       THEN /\ updated_commit_message' = r.val
            /\ pc' = "write"
            /\ UNCHANGED <<outcome, exit_status>>
       ELSE /\ Finish("BadTemplate", 1)
            /\ UNCHANGED updated_commit_message
    /\ UNCHANGED <<run, branch_name, task_regex_raw, commit_message_template,
                   file, template, commit_subject, commit_body, task_id,
                   writes, file_before>>

\* File::create truncates (or creates) the file, write_all fills it.
update_commit_with_message(message) == message

\* Lines 175-178.
WriteFile ==
    /\ pc = "write"
    /\ file' = update_commit_with_message(updated_commit_message)
    /\ writes' = writes + 1
    /\ Finish("Rewritten", 0)
    /\ UNCHANGED <<run, branch_name, task_regex_raw, commit_message_template,
                   template, commit_subject, commit_body, task_id,
                   updated_commit_message, file_before>>

\* The hook runs again, with the same arguments, on the message it rewrote.
Rerun ==
    /\ pc = "done"
    /\ run = 1
    /\ outcome = "Rewritten"
    /\ run' = 2
    /\ pc' = "start"
    /\ file_before' = file
    /\ template' = <<>>
    /\ commit_subject' = <<>>
    /\ commit_body' = <<>>
    /\ task_id' = <<>>
    /\ updated_commit_message' = <<>>
    /\ exit_status' = 0
    /\ writes' = 0
    /\ outcome' = "running"
    /\ UNCHANGED <<branch_name, task_regex_raw, commit_message_template, file>>

Next ==
    \/ Compile
    \/ ReadMessage
    \/ MatchBranch
    \/ PresenceCheck
    \/ Format
    \/ WriteFile
    \/ Rerun

Spec == Init /\ [][Next]_vars

-----------------------------------------------------------------------------
(* Properties of provide_task_id_into_commit (specification Spec) *)

\* What the current invocation was given, computed from its inputs.
InSubjectBody ==
    get_subject_and_body(Trim(IF file_before = NoFile THEN <<>> ELSE file_before))
InTaskId == get_task_id(branch_name, task_regex_raw)
InPresent ==
    \/ Contains(InSubjectBody[1], InTaskId.val)
    \/ Contains(InSubjectBody[2], InTaskId.val)
InRender ==
    format_commit_message(Replace(commit_message_template, ESC_NL, <<NL>>),
                          InSubjectBody[1], InSubjectBody[2], InTaskId.val)
PassThrough == {NotInBranch, WrongCapturingGroup, "Present"}
Fatal == {"InvalidPattern", "BadTemplate"}

\* C1: a second invocation on a message the first invocation rewrote, with the
\* same branch, pattern and template, leaves the file as the first invocation
\* wrote it.  Stated for the rewritten messages that carry the identifier
\* (every run-2 file is one the first invocation rendered).
C1_Idempotent ==
    (run = 2 /\ pc = "done" /\ Contains(file_before, InTaskId.val))
        => file = file_before

\* C2: the file is modified only on the rewrite path.  Until the invocation is
\* done nothing has been written; an invocation that ends NotInBranch,
\* WrongCapturingGroup, Present, InvalidPattern or BadTemplate leaves the file
\* exactly as it found it; the rewrite path writes once, as its last step.
C2_FileFrame ==
    /\ pc # "done" => (file = file_before /\ writes = 0)
    /\ (pc = "done" /\ outcome \in PassThrough \cup Fatal)
           => (file = file_before /\ writes = 0)
    /\ (pc = "done" /\ outcome = "Rewritten")
           => (writes = 1 /\ file = updated_commit_message)
    /\ pc = "done" => outcome \in PassThrough \cup Fatal \cup {"Rewritten"}

\* A pass-through on a file that has trailing whitespace and a comment trailer.
C2_Witness ==
    /\ pc = "done"
    /\ outcome = "Present"
    /\ file = <<"a", NL, NL, "b", NL, NL, HASH, "c", NL>>
    /\ commit_body = <<"b", NL>>

\* C7: when the pattern matches with named capture t, t is in neither the
\* subject nor the body of the trimmed file, and the template renders, the
\* file ends up holding render(E(template), subject, body, t), E expanding
\* backslash-n in the raw template only.
C7_EndToEnd ==
    (/\ pc = "done"
     /\ task_regex_raw.valid
     /\ InTaskId.ok
     /\ ~InPresent
     /\ InRender.ok)
    => (file = InRender.val /\ outcome = "Rewritten")

\* A rewrite whose template held backslash-n and whose subject holds a
\* backslash-n that stays unexpanded.
C7_Witness ==
    /\ pc = "done"
    /\ run = 1
    /\ outcome = "Rewritten"
    /\ Contains(commit_message_template, ESC_NL)
    /\ Contains(commit_subject, ESC_NL)
    /\ Contains(file, ESC_NL)
    /\ Contains(file, NL2)

\* C8: the invocation ends with status 1 exactly when the pattern is invalid or
\* the template fails to render on the rewrite path; every other outcome ends
\* with status 0; every invocation ends in exactly one outcome.
C8_ExitStatus ==
    /\ pc = "done" =>
         /\ exit_status # 0 <=>
              \/ ~task_regex_raw.valid
              \/ (InTaskId.ok /\ ~InPresent /\ ~InRender.ok)
         /\ exit_status \in {0, 1}
         /\ outcome \in PassThrough \cup Fatal \cup {"Rewritten"}
         /\ outcome = "InvalidPattern" <=> ~task_regex_raw.valid
         /\ task_regex_raw.valid =>
              /\ outcome = NotInBranch <=> InTaskId = Err(NotInBranch)
              /\ outcome = WrongCapturingGroup <=> InTaskId = Err(WrongCapturingGroup)
              /\ outcome = "Present" <=> (InTaskId.ok /\ InPresent)
              /\ outcome = "BadTemplate" <=>
                     (InTaskId.ok /\ ~InPresent /\ ~InRender.ok)
              /\ outcome = "Rewritten" <=>
                     (InTaskId.ok /\ ~InPresent /\ InRender.ok)
    /\ pc # "done" => (exit_status = 0 /\ outcome = "running" /\ ENABLED Next)
    /\ pc \in {"start", "read", "match", "check", "format", "write", "done"}

\* The configuration warning ends with status 0, a bad template with 1.
C8_Witness ==
    /\ pc = "done"
    /\ \/ outcome = WrongCapturingGroup /\ exit_status = 0
       \/ outcome = "BadTemplate" /\ exit_status = 1

\* C9: a missing file is an empty message: subject and body are empty, the
\* only fatal endings are the invalid pattern and the bad template, a
\* non-empty task id creates the file with render(E(template), "", "", t),
\* and a pass-through creates no file.
C9_MissingFile ==
    file_before = NoFile =>
      /\ pc \notin {"start", "read"} =>
             (commit_subject = <<>> /\ commit_body = <<>>)
      /\ (pc = "done" /\ exit_status # 0) => outcome \in Fatal
      /\ (pc = "done" /\ task_regex_raw.valid /\ ~InTaskId.ok) => file = NoFile
      /\ (pc = "done" /\ task_regex_raw.valid /\ InTaskId.ok /\ InTaskId.val = <<>>)
             => file = NoFile
      /\ (pc = "done" /\ task_regex_raw.valid /\ InTaskId.ok /\ InTaskId.val # <<>>)
             => LET r == format_commit_message(
                             Replace(commit_message_template, ESC_NL, <<NL>>),
                             <<>>, <<>>, InTaskId.val)
                IN IF r.ok THEN file = r.val /\ outcome = "Rewritten"
                   ELSE file = NoFile /\ outcome = "BadTemplate"

\* The missing file was created by the rewrite.
C9_Witness ==
    /\ file_before = NoFile
    /\ pc = "done"
    /\ outcome = "Rewritten"
    /\ file # NoFile
    /\ Contains(file, task_id)

\* C10: when the pattern matches and the task_template capture is empty the
\* invocation always passes through: file untouched, status 0, whatever the
\* message and the template.
C10_EmptyId ==
    (/\ pc = "done"
     /\ task_regex_raw.valid
     /\ InTaskId = Ok(<<>>))
    => (/\ outcome = "Present"
        /\ file = file_before
        /\ writes = 0
        /\ exit_status = 0)

\* An empty capture with a template that would not render.
C10_Witness ==
    /\ pc = "done"
    /\ task_regex_raw.valid
    /\ InTaskId = Ok(<<>>)
    /\ ~InRender.ok
    /\ file_before # NoFile
    /\ outcome = "Present"

-----------------------------------------------------------------------------
(* get_subject_and_body on every raw message (specification SpecSplit) *)

MaxMsgLen == 7

SplitChars == {NL, HASH, "a"}

InitSplit ==
    /\ pc = "split"
    /\ run = 1
    /\ file \in SeqsUpTo(SplitChars, MaxMsgLen)
    /\ file_before = file
    /\ branch_name = <<>>
    /\ task_regex_raw = Pattern(TRUE, <<>>, TRUE, "plus", {})
    /\ commit_message_template = <<>>
    /\ template = <<>>
    /\ commit_subject = <<>>
    /\ commit_body = <<>>
    /\ task_id = <<>>
    /\ updated_commit_message = <<>>
    /\ exit_status = 0
    /\ writes = 0
    /\ outcome = "running"

Split ==
    /\ pc = "split"
    /\ \E sb \in {get_subject_and_body(file)} :
          /\ commit_subject' = sb[1]
          /\ commit_body' = sb[2]
    /\ pc' = "split_done"
    /\ UNCHANGED <<run, branch_name, task_regex_raw, commit_message_template,
                   file, template, task_id, updated_commit_message,
                   exit_status, writes, file_before, outcome>>

NextSplit == Split

SpecSplit == InitSplit /\ [][NextSplit]_vars

\* The positions where a newline is followed by `#`: the comment block starts
\* at the first of them.
CommentStarts == {i \in 1..(Len(file) - 1) : file[i] = NL /\ file[i + 1] = HASH}
Stripped ==
    IF CommentStarts = {} THEN file
    ELSE SubSeq(file, 1, (CHOOSE i \in CommentStarts :
                              \A j \in CommentStarts : i <= j) - 1)
\* The blank-line separators that lie before the comment block.
Separators ==
    {i \in 1..(Len(Stripped) - 1) : Stripped[i] = NL /\ Stripped[i + 1] = NL}

LineStartsWithHash(s) ==
    \/ (s # <<>> /\ s[1] = HASH)
    \/ \E i \in 1..(Len(s) - 1) : s[i] = NL /\ s[i + 1] = HASH

\* C5: the first line that starts with `#` begins the comment section, so
\* neither subject nor body ever holds a line that starts with `#`.
C5_NoCommentLine ==
    pc = "split_done" =>
        (~LineStartsWithHash(commit_subject) /\ ~LineStartsWithHash(commit_body))

-----------------------------------------------------------------------------
(* get_task_id on every branch and pattern (specification SpecMatch) *)

MaxBranchLen == 4

BranchChars == {"f", "t", "T", SP}

MatchPatterns ==
    { Pattern(TRUE, p, n, q, c) :
        p \in {<<>>, <<"f">>}, n \in BOOLEAN, q \in {"plus", "star", "opt"},
        c \in {{"t"}, {"t", "T", SP}} }

InitMatch ==
    /\ pc = "id"
    /\ run = 1
    /\ branch_name \in SeqsUpTo(BranchChars, MaxBranchLen)
    /\ task_regex_raw \in MatchPatterns
    /\ file = <<>>
    /\ file_before = <<>>
    /\ commit_message_template = <<>>
    /\ template = <<>>
    /\ commit_subject = <<>>
    /\ commit_body = <<>>
    /\ task_id = <<>>
    /\ updated_commit_message = <<>>
    /\ exit_status = 0
    /\ writes = 0
    /\ outcome = "running"

GetTaskId ==
    /\ pc = "id"
    /\ \E r \in {get_task_id(branch_name, task_regex_raw)} :
          /\ task_id' = IF r.ok THEN r.val ELSE <<>>
          /\ outcome' = IF r.ok THEN "Ok" ELSE r.val
    /\ pc' = "id_done"
    /\ UNCHANGED <<run, branch_name, task_regex_raw, commit_message_template,
                   file, template, commit_subject, commit_body,
                   updated_commit_message, exit_status, writes, file_before>>

NextMatch == GetTaskId

SpecMatch == InitMatch /\ [][NextMatch]_vars

\* The positions of the branch where the pattern matches: the prefix is there
\* and, for `+`, a class character follows it.
InClassAt(j) == j <= Len(branch_name) /\ branch_name[j] \in task_regex_raw.cls
MatchStarts ==
    {i \in 1..(Len(branch_name) + 1) :
        /\ i + Len(task_regex_raw.prefix) - 1 <= Len(branch_name)
        /\ SubSeq(branch_name, i, i + Len(task_regex_raw.prefix) - 1)
               = task_regex_raw.prefix
        /\ task_regex_raw.quant = "plus"
               => InClassAt(i + Len(task_regex_raw.prefix))}

\* C3: no match gives NotInBranch, also when the pattern has no named group;
\* a match without a task_template capture gives WrongCapturingGroup; otherwise
\* the result is the captured piece of the branch, unchanged.
C3_Classification ==
    pc = "id_done" =>
        /\ outcome \in {"Ok", NotInBranch, WrongCapturingGroup}
        /\ outcome = NotInBranch <=> MatchStarts = {}
        /\ MatchStarts # {} =>
             \E i \in MatchStarts :
                /\ \A k \in MatchStarts : i <= k
                /\ LET j == i + Len(task_regex_raw.prefix)
                       captured ==
                           /\ task_regex_raw.named
                           /\ task_regex_raw.quant = "opt" => InClassAt(j)
                   IN /\ outcome = WrongCapturingGroup <=> ~captured
                      /\ captured =>
                           \E e \in (j - 1)..Len(branch_name) :
                              /\ task_id = SubSeq(branch_name, j, e)
                              /\ \A k \in j..e : InClassAt(k)
                              /\ ~InClassAt(e + 1)

\* A capture returned with its space and its upper-case letter.
C3_Witness ==
    /\ pc = "id_done"
    /\ outcome = "Ok"
    /\ task_id = <<SP, "T", "t">>

-----------------------------------------------------------------------------
(* format_commit_message on templates built from pieces (specification      *)
(* SpecFormat); the template is the one already unescaped                    *)

MaxTemplatePieces == 4

FormatPieces == {PH(SUBJECT), PH(BODY), PH(TASK_ID), NL2, <<LB>>, <<RB>>}

RECURSIVE Flatten(_)
Flatten(pieces) ==
    IF pieces = <<>> THEN <<>> ELSE Head(pieces) \o Flatten(Tail(pieces))

StandardTemplate == PH(SUBJECT) \o NL2 \o PH(BODY) \o NL2 \o PH(TASK_ID)

FormatTemplates ==
    {Flatten(ps) : ps \in SeqsUpTo(FormatPieces, MaxTemplatePieces)}
        \cup {StandardTemplate}

InitFormat ==
    /\ pc = "fmt"
    /\ run = 1
    /\ template \in FormatTemplates
    /\ commit_subject \in {<<"S">>, PH(BODY)}
    /\ commit_body \in {<<>>, <<"B">>, <<"B", NL, NL, NL, NL, "B">>}
    /\ task_id = <<"T">>
    /\ commit_message_template = template
    /\ branch_name = <<>>
    /\ task_regex_raw = Pattern(TRUE, <<>>, TRUE, "plus", {})
    /\ file = <<>>
    /\ file_before = <<>>
    /\ updated_commit_message = <<>>
    /\ exit_status = 0
    /\ writes = 0
    /\ outcome = "running"

FormatMessage ==
    /\ pc = "fmt"
    /\ \E r \in {format_commit_message(template, commit_subject, commit_body,
                                       task_id)} :
          /\ updated_commit_message' = IF r.ok THEN r.val ELSE <<>>
          /\ outcome' = IF r.ok THEN "Ok" ELSE "BadTemplate"
          /\ exit_status' = IF r.ok THEN 0 ELSE 1
    /\ pc' = "fmt_done"
    /\ UNCHANGED <<run, branch_name, task_regex_raw, commit_message_template,
                   file, template, commit_subject, commit_body, task_id,
                   writes, file_before>>

NextFormat == FormatMessage

SpecFormat == InitFormat /\ [][NextFormat]_vars

\* The template from position i on, each placeholder replaced by its value and
\* every other character kept.
RECURSIVE Substituted(_)
Substituted(i) ==
    IF i > Len(template) THEN <<>>
    ELSE IF StartsWithAt(template, PH(SUBJECT), i)
         THEN commit_subject \o Substituted(i + Len(PH(SUBJECT)))
    ELSE IF StartsWithAt(template, PH(BODY), i)
         THEN commit_body \o Substituted(i + Len(PH(BODY)))
    ELSE IF StartsWithAt(template, PH(TASK_ID), i)
         THEN task_id \o Substituted(i + Len(PH(TASK_ID)))
    ELSE <<template[i]>> \o Substituted(i + 1)

\* The same, with a doubled brace read as one literal brace.
RECURSIVE Rendered(_)
Rendered(i) ==
    IF i > Len(template) THEN <<>>
    ELSE IF StartsWithAt(template, <<LB, LB>>, i)
         THEN <<LB>> \o Rendered(i + 2)
    ELSE IF StartsWithAt(template, <<RB, RB>>, i)
         THEN <<RB>> \o Rendered(i + 2)
    ELSE IF StartsWithAt(template, PH(SUBJECT), i)
         THEN commit_subject \o Rendered(i + Len(PH(SUBJECT)))
    ELSE IF StartsWithAt(template, PH(BODY), i)
         THEN commit_body \o Rendered(i + Len(PH(BODY)))
    ELSE IF StartsWithAt(template, PH(TASK_ID), i)
         THEN task_id \o Rendered(i + Len(PH(TASK_ID)))
    ELSE <<template[i]>> \o Rendered(i + 1)

\* One pass, left to right, over runs of four newlines.
RECURSIVE CollapsedOnce(_)
CollapsedOnce(s) ==
    IF s = <<>> THEN <<>>
    ELSE IF Len(s) >= 4 /\ SubSeq(s, 1, 4) = NL4
         THEN NL2 \o CollapsedOnce(SubSeq(s, 5, Len(s)))
    ELSE <<Head(s)>> \o CollapsedOnce(Tail(s))

\* C6 as stated: a well-formed template comes back with its placeholders
\* replaced and nothing else changed, then collapsed in one pass.
C6_PlainSubstitution ==
    (pc = "fmt_done" /\ outcome = "Ok")
        => updated_commit_message = CollapsedOnce(Substituted(1))

\* The template from position i on is made of placeholders, doubled braces
\* and brace-free text only.
RECURSIVE WellFormed(_)
WellFormed(i) ==
    IF i > Len(template) THEN TRUE
    ELSE IF StartsWithAt(template, <<LB, LB>>, i) THEN WellFormed(i + 2)
    ELSE IF StartsWithAt(template, <<RB, RB>>, i) THEN WellFormed(i + 2)
    ELSE IF StartsWithAt(template, PH(SUBJECT), i)
         THEN WellFormed(i + Len(PH(SUBJECT)))
    ELSE IF StartsWithAt(template, PH(BODY), i)
         THEN WellFormed(i + Len(PH(BODY)))
    ELSE IF StartsWithAt(template, PH(TASK_ID), i)
         THEN WellFormed(i + Len(PH(TASK_ID)))
    ELSE template[i] \notin {LB, RB} /\ WellFormed(i + 1)

\* C6, amended: a template made of the three placeholders, doubled braces and
\* brace-free text is accepted and comes back with its placeholders replaced
\* and each doubled brace turned into one literal brace, then collapsed in one
\* pass that is not repeated: six newlines become four; the standard template
\* gives subject, blank line, task id for an empty body and subject, blank
\* line, body, blank line, task id for a body without blank lines.
C6_Render ==
    (pc = "fmt_done" /\ WellFormed(1)) =>
        /\ outcome = "Ok"
        /\ updated_commit_message = CollapsedOnce(Rendered(1))
        /\ template = NL2 \o NL2 \o NL2 => updated_commit_message = NL4
        /\ (template = StandardTemplate /\ commit_body = <<>>)
               => updated_commit_message = commit_subject \o NL2 \o task_id
        /\ (template = StandardTemplate /\ commit_body = <<"B">>)
               => updated_commit_message
                      = commit_subject \o NL2 \o <<"B">> \o NL2 \o task_id

\* Six newlines around an empty body came back as four.
C6_Witness ==
    /\ pc = "fmt_done"
    /\ outcome = "Ok"
    /\ template = PH(SUBJECT) \o NL2 \o NL2 \o NL2
    /\ commit_subject = <<"S">>
    /\ updated_commit_message = <<"S">> \o NL4

====
